---- MODULE Spec2Model ----
(***************************************************************************)
(* NvdHandler of CveMate (src/datasources/nvd_handler.py): the rate-limited *)
(* fetch (make_request), the full load over a thread pool                   *)
(* (download_all_data) and the incremental sync (get_updates), run against  *)
(* a paginated source and a document store.                                 *)
(*                                                                          *)
(* Time is counted in clock ticks.  A formatted timestamp (strftime with    *)
(* second precision) keeps whole seconds only; one second is SecTicks       *)
(* ticks, one hour is HourSecs seconds (scaled down from 3600).             *)
(* An optional value (None or a value) is a sequence of length 0 or 1.      *)
(***************************************************************************)
EXTENDS Integers, Sequences, FiniteSets, TLC

\* ---------------------------------------------------------------- bounds
MaxTime == 1
MaxRuns == 2
MaxPages == 3
MaxHours == 1
MaxPerPage == 3
MaxThreads == 2
SecTicks == 2
HourSecs == 2

HourTicks == HourSecs * SecTicks

\* ---------------------------------------------------- configuration values
\* nvd_config values read in __init__ (a small configuration instance).
public_rate_limit == 1
api_rate_limit == 2
rolling_window == 1
results_per_page == 2
retry_limit == 3
retry_delay == 10
DefaultHours == 24

\* self.api_key: no credential is configured.
api_key == ""

None == << >>
Some(x) == << x >>

VARIABLES
    now,              \* the clock (time.monotonic / datetime.utcnow), in ticks
    max_threads,      \* self.max_threads
    store,            \* the "cve" collection: how many documents hold each record id
    hasIndex,         \* whether the unique index on "id" exists
    checkpoint,       \* the "nvd" status entry (last update time): None or Some(t)
    pc,               \* where the main thread is in the current run
    mode,             \* "none" | "full" (download_all_data) | "incr" (get_updates)
    runs,             \* runs started so far
    last_hours,       \* get_updates' argument: None or Some(h)
    window,           \* custom_params of get_updates: [start, end] as formatted, or None
    now_utc,          \* get_updates' now_utc
    total_results,    \* totalResults of the seed / window response
    futures,          \* the pool's tasks in submission order, each with the body it was answered
    body0,            \* the body answered to the run's first request: "none" before it returns
    pbar,             \* tqdm progress counter
    error,            \* the exception that reached the main thread: "none" or one of ErrorKinds
    reqLog,           \* start times of the HTTP requests of the trailing window
    fetched,          \* start indices of the fetches of this run that returned
    ckptAtStart,      \* checkpoint when the run began
    storeAtStart,     \* store when the run began
    ckptWrites,       \* update_status calls of this run
    indexCalls,       \* ensure_index_on_id calls of this run
    prev,             \* the previous run: [mode, total, ok]
    ops,              \* the store operations of this run: [start_index, op]
    lastDone,         \* the clock when the latest fetch of this run returned: None or Some(t)
    attempts          \* start index -> the HTTP requests this run has sent for that page

config == << max_threads >>
db == << store, hasIndex, checkpoint >>
runv == << pc, mode, runs, last_hours, window, now_utc, total_results, futures, body0, pbar, error >>
ghost == << fetched, ckptAtStart, storeAtStart, ckptWrites, indexCalls, prev, ops, lastDone, attempts >>
vars == << now, config, db, runv, ghost, reqLog >>

\* ------------------------------------------------------------- helpers
Min(a, b) == IF a < b THEN a ELSE b
Max(a, b) == IF a > b THEN a ELSE b
Range(s) == { s[i] : i \in 1..Len(s) }

\* The record ids a source listing can hold.
Ids == 1..(MaxPages * results_per_page)
EmptyStore == [ id \in Ids |-> 0 ]
NoDuplicates(st) == \A id \in Ids : st[id] <= 1

\* strftime('%Y-%m-%dT%H:%M:%SZ'): the timestamp cut to whole seconds.
strftime(t) == t - (t % SecTicks)

\* Python truthiness of an optional number (None and 0 are false) and of an
\* optional datetime (only None is false).
TruthyNumber(o) == o # None /\ o[1] # 0
TruthyDatetime(o) == o # None

\* ------------------------------------------------------------ the source
\* The page of a listing of T records (ids 1..T) that starts at start_index,
\* with the page size the request asks for.
PageRecords(start_index, T, per_page) ==
    [ k \in 1..Min(per_page, Max(T - start_index, 0)) |-> start_index + k ]

Response(start_index, T, per_page) ==
    [ totalResults |-> T, vulnerabilities |-> PageRecords(start_index, T, per_page) ]

\* The start indices a request may carry.
PageStarts == { k * results_per_page : k \in 0..(MaxPages - 1) }
NoAttempts == [ s \in PageStarts |-> 0 ]

\* ------------------------------------------------------------- the store
\* insert_many: a batch insert that tolerates duplicate-identifier conflicts:
\* without the unique index every document is added, with it the documents
\* whose id is already stored are rejected.
RECURSIVE insert_many(_, _, _)
insert_many(st, docs, unique) ==
    IF docs = << >> THEN st
    ELSE LET d == Head(docs)
             st1 == IF unique /\ st[d] > 0 THEN st ELSE [ st EXCEPT ![d] = st[d] + 1 ]
         IN insert_many(st1, Tail(docs), unique)

\* bulk_write: insert-or-replace keyed by the record id.
RECURSIVE bulk_write(_, _)
bulk_write(st, docs) ==
    IF docs = << >> THEN st
    ELSE LET d == Head(docs)
             st1 == IF st[d] > 0 THEN st ELSE [ st EXCEPT ![d] = 1 ]
         IN bulk_write(st1, Tail(docs))

\* update_status(source): the status entry takes the store-side current time
\* (the caller passes no timestamp).
update_status(clock) == Some(clock)

\* get_last_update_time(source)
get_last_update_time(ckpt) == ckpt

\* ensure_index_on_id: the unique index is built unless duplicates prevent it.
ensure_index_on_id(st, unique) == unique \/ NoDuplicates(st)

\* ------------------------------------------------------- the rate limiter
\* ratelimit.limits(calls, period): a fresh limiter, its window starting now.
limits(calls, period, clock) ==
    [ clamped_calls |-> Max(1, calls), period |-> period,
      last_reset |-> clock, num_calls |-> 0 ]

\* One call through a limiter: the window is reset once it has elapsed, the
\* call is counted, and it is let through unless the count exceeds the limit
\* (sleep_and_retry then sleeps and calls again).
limits_call(lim, clock) ==
    LET period_remaining == lim.period - (clock - lim.last_reset)
        l1 == IF period_remaining <= 0
                THEN [ lim EXCEPT !.num_calls = 0, !.last_reset = clock ]
                ELSE lim
        l2 == [ l1 EXCEPT !.num_calls = l1.num_calls + 1 ]
    IN [ lim |-> l2, allowed |-> l2.num_calls <= l2.clamped_calls ]

\* The limit make_request decorates its request with.
ActiveRateLimit == api_rate_limit

\* make_request builds its limiter inside the call: each request goes through
\* a limiter of its own, created as the request is made.
RequestLimiter(clock) == limits(ActiveRateLimit, rolling_window * SecTicks, clock)

RequestAllowed(clock) == limits_call(RequestLimiter(clock), clock).allowed

\* The requests started within the trailing window that ends at clock.
InWindow(log, clock) ==
    SelectSeq(log, LAMBDA t : clock - t < rolling_window * SecTicks)

\* ---------------------------------------------------------- make_request
\* The headers of the request: the credential, when one is configured.
RequestHeaders == IF api_key # "" THEN << api_key >> ELSE << >>

\* The exceptions make_request raises: a status other than 200 (a client
\* error or a server error) and a body that is not JSON.
HttpErrors == { "http4xx", "http5xx" }
ErrorKinds == HttpErrors \cup { "json" }

\* The bodies of the 200 responses make_request returns from: a page of the
\* listing, or a JSON object that has no "vulnerabilities" entry (and no
\* "totalResults").
Bodies == { "page", "bare" }

\* The responses a request may be answered: a status and a body, "text" being
\* a body that is not JSON.
Responses ==
    [ status : { 200 }, body : Bodies \cup { "text" } ]
      \cup [ status : { 404, 500 }, body : { "text" } ]

\* What make_request raises on a response: an exception naming the status
\* when the status is not 200, a ValueError when response.json() fails, and
\* nothing otherwise.
Raises(response) ==
    IF response.status # 200
      THEN (IF response.status < 500 THEN "http4xx" ELSE "http5xx")
    ELSE IF response.body \notin Bodies THEN "json"
    ELSE "none"

\* What the code reads from a body: data.get('totalResults', 0) and
\* data.get('vulnerabilities', []).
Decode(body, start_index, T, per_page) ==
    IF body = "page" THEN Response(start_index, T, per_page)
    ELSE [ totalResults |-> 0, vulnerabilities |-> << >> ]

\* The store operation a step persists a page with.
StoreOp(step) == IF step = "init" THEN "insert_many" ELSE "bulk_write"

\* The step of the seed call make_request() and of the pool's calls.
SeedStep == "update"
TaskStep == "init"
UpdateStep == "update"

\* Which store operation a step uses for a page's records.
PersistPageInsertOnly(step, st, docs, unique) == insert_many(st, docs, unique)
PersistPage(step, st, docs, unique) ==
    IF step = "init" THEN insert_many(st, docs, unique) ELSE bulk_write(st, docs)

\* Whether make_request writes the status entry after a page.
WritesStatusAlways(step, docs) == TRUE
WritesStatus(step, docs) == docs # << >>

\* The store after make_request has handled a response.
StoreAfter(step, data) ==
    IF data.vulnerabilities # << >>
      THEN PersistPage(step, store, data.vulnerabilities, hasIndex)
      ELSE store

CheckpointAfter(step, data) ==
    IF WritesStatus(step, data.vulnerabilities) THEN update_status(now) ELSE checkpoint

CkptWritesAfter(step, data) ==
    ckptWrites + (IF WritesStatus(step, data.vulnerabilities) THEN 1 ELSE 0)

\* The store operations of the run after make_request has handled a response.
OpsAfter(step, start_index, data) ==
    IF data.vulnerabilities # << >>
      THEN ops \cup { [ start_index |-> start_index, op |-> StoreOp(step) ] }
      ELSE ops

\* ----------------------------------------------------- download_all_data
NumPagesFloor(total, per_page) == total \div per_page
NumPages(total, per_page) == (total + per_page - 1) \div per_page

\* The start indices of the submitted page fetches, in submission order.
SubmittedStarts(total, per_page) ==
    [ k \in 1..Max(NumPages(total, per_page) - 1, 0) |-> k * per_page ]

NewFutures(total, per_page) ==
    LET starts == SubmittedStarts(total, per_page)
    IN [ k \in 1..Len(starts) |->
           [ start_index |-> starts[k], state |-> "queued", body |-> "none",
             collected |-> FALSE ] ]

\* initial_vulnerabilities / updates: the records of the run's first response.
initial_vulnerabilities ==
    IF body0 = "none" THEN << >>
    ELSE Decode(body0, 0, total_results, results_per_page).vulnerabilities

\* data.get('vulnerabilities', []) of a future's result.
FutureVulnerabilities(f) ==
    IF f.body = "none" THEN << >>
    ELSE Decode(f.body, f.start_index, total_results, results_per_page).vulnerabilities

\* tqdm(total, initial): what the progress bar starts from.
InitialProgressZero(vulnerabilities) == 0
InitialProgress(vulnerabilities) == Len(vulnerabilities)

Running == { i \in 1..Len(futures) : futures[i].state = "running" }
Queued == { i \in 1..Len(futures) : futures[i].state = "queued" }

\* ThreadPoolExecutor(max_workers): a worker is free to take the next task.
WorkerFreeOffByOne == Cardinality(Running) <= max_threads
WorkerFree == Cardinality(Running) < max_threads

\* future.result() hands the page of a task that returned, and raises the
\* exception of a task that failed.
ResultReturnsAny(f) == f.state \in { "done" } \cup ErrorKinds
ResultReturns(f) == f.state = "done"
ResultRaises(f) == f.state \in ErrorKinds

\* as_completed has yielded every future: the loop and the with blocks end.
AllCollectedAtOnce == TRUE
AllCollected == \A i \in 1..Len(futures) : futures[i].collected

Terminal == { "idle", "success", "failed" }

\* ------------------------------------------------------------------ Init
Init ==
    /\ now = 0
    /\ max_threads \in 1..MaxThreads
    /\ store = EmptyStore
    /\ hasIndex = FALSE
    /\ checkpoint = None
    /\ pc = "idle"
    /\ mode = "none"
    /\ runs = 0
    /\ last_hours = None
    /\ window = None
    /\ now_utc = 0
    /\ total_results = 0
    /\ futures = << >>
    /\ body0 = "none"
    /\ pbar = 0
    /\ error = "none"
    /\ reqLog = << >>
    /\ fetched = { }
    /\ ckptAtStart = None
    /\ storeAtStart = EmptyStore
    /\ ckptWrites = 0
    /\ indexCalls = 0
    /\ prev = [ mode |-> "none", total |-> 0, ok |-> FALSE ]
    /\ ops = { }
    /\ lastDone = None
    /\ attempts = NoAttempts

\* What a run leaves behind for the next one to compare with.
RunSummary == [ mode |-> mode, total |-> total_results, ok |-> pc = "success" ]

\* The per-run bookkeeping as a new run begins.
BeginRun ==
    /\ pc \in Terminal
    /\ runs < MaxRuns
    /\ runs' = runs + 1
    /\ RequestAllowed(now)
    /\ reqLog' = Append(reqLog, now)
    /\ total_results' = 0
    /\ futures' = << >>
    /\ body0' = "none"
    /\ pbar' = 0
    /\ error' = "none"
    /\ fetched' = { }
    /\ ckptAtStart' = checkpoint
    /\ storeAtStart' = store
    /\ ckptWrites' = 0
    /\ indexCalls' = 0
    /\ prev' = RunSummary
    /\ ops' = { }
    /\ lastDone' = None
    /\ attempts' = [ NoAttempts EXCEPT ![0] = 1 ]

\* The clock advances.
Tick ==
    /\ now < MaxTime
    /\ now' = now + 1
    /\ reqLog' = InWindow(reqLog, now + 1)
    /\ UNCHANGED << config, db, runv, ghost >>

\* download_all_data is called, as the first load of the database: the seed
\* make_request() sends its request.
download_all_data ==
    /\ runs = 0
    /\ BeginRun
    /\ mode' = "full"
    /\ pc' = "seed"
    /\ last_hours' = None
    /\ window' = None
    /\ now_utc' = 0
    /\ UNCHANGED << now, config, db >>

\* The seed request returns a page: make_request (step "update") stores it,
\* download_all_data computes num_pages and submits the remaining fetches.
SeedReturns(T, response) ==
    /\ pc = "seed"
    /\ Raises(response) = "none"
    /\ LET data == Decode(response.body, 0, T, results_per_page)
       IN /\ store' = StoreAfter(SeedStep, data)
          /\ checkpoint' = CheckpointAfter(SeedStep, data)
          /\ ckptWrites' = CkptWritesAfter(SeedStep, data)
          /\ ops' = OpsAfter(SeedStep, 0, data)
          /\ total_results' = data.totalResults
          /\ futures' = NewFutures(data.totalResults, results_per_page)
          /\ pbar' = InitialProgress(data.vulnerabilities)
    /\ body0' = response.body
    /\ fetched' = fetched \cup { 0 }
    /\ lastDone' = Some(now)
    /\ pc' = "collect"
    /\ UNCHANGED << now, config, hasIndex, mode, runs, last_hours, window, now_utc, error,
                    reqLog, ckptAtStart, storeAtStart, indexCalls, prev, attempts >>

\* The seed request fails (a non-200 status or a body that is not JSON): the
\* exception leaves make_request and download_all_data.
SeedFails(response) ==
    /\ pc = "seed"
    /\ Raises(response) # "none"
    /\ error' = Raises(response)
    /\ pc' = "failed"
    /\ UNCHANGED << now, config, db, mode, runs, last_hours, window, now_utc, total_results,
                    futures, body0, pbar, reqLog, ghost >>

\* A pool worker takes the oldest queued task and sends its request.
TaskBegins(i) ==
    /\ pc \in { "collect", "shutdown" }
    /\ i \in Queued
    /\ \A j \in Queued : i <= j
    /\ WorkerFree
    /\ RequestAllowed(now)
    /\ reqLog' = Append(reqLog, now)
    /\ futures' = [ futures EXCEPT ![i].state = "running" ]
    /\ attempts' = [ attempts EXCEPT ![futures[i].start_index] = @ + 1 ]
    /\ UNCHANGED << now, config, db, pc, mode, runs, last_hours, window, now_utc,
                    total_results, body0, pbar, error, fetched, ckptAtStart, storeAtStart,
                    ckptWrites, indexCalls, prev, ops, lastDone >>

\* A task's request returns its page: make_request (step "init") stores it.
TaskReturns(i, response) ==
    /\ i \in Running
    /\ Raises(response) = "none"
    /\ LET data == Decode(response.body, futures[i].start_index, total_results,
                          results_per_page)
       IN /\ store' = StoreAfter(TaskStep, data)
          /\ checkpoint' = CheckpointAfter(TaskStep, data)
          /\ ckptWrites' = CkptWritesAfter(TaskStep, data)
          /\ ops' = OpsAfter(TaskStep, futures[i].start_index, data)
    /\ futures' = [ futures EXCEPT ![i].state = "done", ![i].body = response.body ]
    /\ fetched' = fetched \cup { futures[i].start_index }
    /\ lastDone' = Some(now)
    /\ UNCHANGED << now, config, hasIndex, pc, mode, runs, last_hours, window, now_utc,
                    total_results, body0, pbar, error, reqLog, ckptAtStart, storeAtStart,
                    indexCalls, prev, attempts >>

\* A task's request fails: the exception is kept in its future.
TaskFails(i, response) ==
    /\ i \in Running
    /\ Raises(response) # "none"
    /\ futures' = [ futures EXCEPT ![i].state = Raises(response) ]
    /\ UNCHANGED << now, config, db, pc, mode, runs, last_hours, window, now_utc,
                    total_results, body0, pbar, error, reqLog, ghost >>

\* as_completed hands the main thread a finished future whose result is a page.
Collect(i) ==
    /\ pc = "collect"
    /\ i \in 1..Len(futures)
    /\ ResultReturns(futures[i])
    /\ ~futures[i].collected
    /\ pbar' = pbar + Len(FutureVulnerabilities(futures[i]))
    /\ futures' = [ futures EXCEPT ![i].collected = TRUE ]
    /\ UNCHANGED << now, config, db, pc, mode, runs, last_hours, window, now_utc,
                    total_results, body0, error, reqLog, ghost >>

\* as_completed hands the main thread a future that failed: future.result()
\* raises, and leaving the executor's with block waits for the pool.
CollectRaises(i) ==
    /\ pc = "collect"
    /\ i \in 1..Len(futures)
    /\ ResultRaises(futures[i])
    /\ ~futures[i].collected
    /\ error' = futures[i].state
    /\ pc' = "shutdown"
    /\ UNCHANGED << now, config, db, mode, runs, last_hours, window, now_utc,
                    total_results, futures, body0, pbar, reqLog, ghost >>

\* The executor's shutdown(wait=True) returns once every task has run; the
\* exception then leaves download_all_data.
PoolShutdown ==
    /\ pc = "shutdown"
    /\ Queued = { }
    /\ Running = { }
    /\ pc' = "failed"
    /\ UNCHANGED << now, config, db, mode, runs, last_hours, window, now_utc,
                    total_results, futures, body0, pbar, error, reqLog, ghost >>

\* Every future was consumed: the with blocks end and the index is requested.
Finalize ==
    /\ pc = "collect"
    /\ AllCollected
    /\ hasIndex' = ensure_index_on_id(store, hasIndex)
    /\ indexCalls' = indexCalls + 1
    /\ pc' = "success"
    /\ UNCHANGED << now, config, store, checkpoint, mode, runs, last_hours, window, now_utc,
                    total_results, futures, body0, pbar, error, reqLog, fetched, ckptAtStart,
                    storeAtStart, ckptWrites, prev, ops, lastDone, attempts >>

\* ------------------------------------------------------------ get_updates
\* The start of the window get_updates asks for.
lastModStartDate(hours, last_update_time, utc) ==
    IF TruthyNumber(hours) THEN utc - hours[1] * HourTicks
    ELSE IF TruthyDatetime(last_update_time) THEN last_update_time[1]
    ELSE utc - DefaultHours * HourTicks

SyncWindow(hours, last_update_time, utc) ==
    [ start |-> strftime(lastModStartDate(hours, last_update_time, utc)),
      end |-> strftime(utc) ]

\* get_updates(last_hours) is called: it reads the checkpoint and the clock,
\* computes the window and sends the one request of the run.
get_updates(hours) ==
    /\ BeginRun
    /\ mode' = "incr"
    /\ pc' = "update"
    /\ last_hours' = hours
    /\ now_utc' = now
    /\ window' = Some(SyncWindow(hours, get_last_update_time(checkpoint), now))
    /\ UNCHANGED << now, config, db >>

\* The request returns the first page of a window listing of T records:
\* make_request (step "update") stores it and get_updates returns.
UpdateReturns(T, response) ==
    /\ pc = "update"
    /\ Raises(response) = "none"
    /\ LET data == Decode(response.body, 0, T, results_per_page)
       IN /\ store' = StoreAfter(UpdateStep, data)
          /\ checkpoint' = CheckpointAfter(UpdateStep, data)
          /\ ckptWrites' = CkptWritesAfter(UpdateStep, data)
          /\ ops' = OpsAfter(UpdateStep, 0, data)
          /\ total_results' = data.totalResults
    /\ body0' = response.body
    /\ fetched' = fetched \cup { 0 }
    /\ lastDone' = Some(now)
    /\ pc' = "success"
    /\ UNCHANGED << now, config, hasIndex, mode, runs, last_hours, window, now_utc, futures,
                    pbar, error, reqLog, ckptAtStart, storeAtStart, indexCalls, prev,
                    attempts >>

\* The request fails: the exception leaves get_updates.
UpdateFails(response) ==
    /\ pc = "update"
    /\ Raises(response) # "none"
    /\ error' = Raises(response)
    /\ pc' = "failed"
    /\ UNCHANGED << now, config, db, mode, runs, last_hours, window, now_utc, total_results,
                    futures, body0, pbar, reqLog, ghost >>

\* The totalResults a listing may report: at most MaxPages pages.
Totals == 0..(MaxPages * results_per_page)

HoursArgs == { None } \cup { Some(h) : h \in 0..MaxHours }

Next ==
    \/ Tick
    \/ download_all_data
    \/ \E T \in Totals, response \in Responses : SeedReturns(T, response)
    \/ \E response \in Responses : SeedFails(response)
    \/ \E i \in 1..Len(futures) : TaskBegins(i)
    \/ \E i \in 1..Len(futures), response \in Responses : TaskReturns(i, response)
    \/ \E i \in 1..Len(futures), response \in Responses : TaskFails(i, response)
    \/ \E i \in 1..Len(futures) : Collect(i)
    \/ \E i \in 1..Len(futures) : CollectRaises(i)
    \/ PoolShutdown
    \/ Finalize
    \/ \E hours \in HoursArgs : get_updates(hours)
    \/ \E T \in Totals, response \in Responses : UpdateReturns(T, response)
    \/ \E response \in Responses : UpdateFails(response)

Spec == Init /\ [][Next]_vars

\* ------------------------------------------------------------ properties
\* The least n with n * b >= a: ceil(a / b).
CeilDiv(a, b) == CHOOSE n \in 0..a : n * b >= a /\ \A m \in 0..a : m * b >= a => n <= m

\* The start indices of pages 2..ceil(T/R) of a listing.
ExpectedStarts(T, R) == [ k \in 1..Max(CeilDiv(T, R) - 1, 0) |-> k * R ]

FutureStarts == [ k \in 1..Len(futures) |-> futures[k].start_index ]

\* The ids of the records the fetches of this run have returned.
DeliveredIds ==
    Range(initial_vulnerabilities)
      \cup UNION { Range(FutureVulnerabilities(futures[i])) : i \in 1..Len(futures) }

FetchFailed == error # "none" \/ \E i \in 1..Len(futures) : futures[i].state \in ErrorKinds

\* C1: the HTTP requests started within any trailing window of rolling_window
\* seconds never number more than the rate limit.
C1_RateLimitRespected == Len(InWindow(reqLog, now)) <= api_rate_limit

\* C2: during download_all_data the page fetches that have started and not
\* yet finished never number more than max_threads.
C2_InFlightBounded ==
    Cardinality(Running) + (IF pc = "seed" THEN 1 ELSE 0) <= max_threads

\* C2: every worker is busy and a submitted fetch waits for one.
C2_Witness ==
    /\ mode = "full"
    /\ Cardinality(Running) = max_threads
    /\ Queued # { }

\* C3: after a seed response reporting totalResults = T, the submitted page
\* fetches are exactly those with start indices R, 2R, ..., (ceil(T/R)-1)*R,
\* each once, in a run and for every T and every page size R >= 1 a seed
\* response may meet.
C3_PagesSubmitted ==
    /\ (mode = "full" /\ 0 \in fetched) =>
          FutureStarts = ExpectedStarts(total_results, results_per_page)
    /\ pc = "seed" =>
          \A R \in 1..MaxPerPage : \A T \in 0..(MaxPages * R) :
              SubmittedStarts(T, R) = ExpectedStarts(T, R)

\* C3: totalResults = 5 with a page size of 2 (5000 and 2000 scaled down): three
\* pages, two of them fetched after the seed.
C3_Witness ==
    /\ mode = "full"
    /\ pc = "collect"
    /\ total_results = 5
    /\ results_per_page = 2
    /\ FutureStarts = << 2, 4 >>

\* C4: the window of get_updates is [now-H, now] when an override of H hours
\* is given, whatever the checkpoint; [T0, now] with no override and a
\* checkpoint T0; [now-24h, now] with neither (timestamps as formatted).
C4_WindowAsClaimed ==
    (mode = "incr" /\ window # None) =>
        LET start == IF last_hours # None THEN now_utc - last_hours[1] * HourTicks
                     ELSE IF ckptAtStart # None THEN ckptAtStart[1]
                     ELSE now_utc - DefaultHours * HourTicks
        IN window[1] = [ start |-> strftime(start), end |-> strftime(now_utc) ]

\* C5: after a successful incremental sync whose listing reports T records,
\* every one of its ceil(T/R) pages was fetched and every record is stored.
C5_AllPagesSynced ==
    (mode = "incr" /\ pc = "success") =>
        /\ \A k \in 0..(CeilDiv(total_results, results_per_page) - 1) :
              k * results_per_page \in fetched
        /\ \A id \in 1..total_results : store[id] > 0

\* C6: a second incremental sync that is returned the same records as the
\* first leaves the store as it was: the same ids, each as often as before,
\* the returned records among them.
C6_SecondSyncIdempotent ==
    (/\ mode = "incr" /\ pc = "success"
     /\ prev.mode = "incr" /\ prev.ok /\ prev.total = total_results) =>
        /\ store = storeAtStart
        /\ \A id \in Range(PageRecords(0, total_results, results_per_page)) : store[id] = 1

\* C6: a second successful sync that was returned the records of the first.
C6_Witness ==
    /\ mode = "incr" /\ pc = "success"
    /\ prev.mode = "incr" /\ prev.ok /\ prev.total = total_results
    /\ total_results > 0

\* C7: once a fetch of a full load has failed, the run does not end in success
\* (no index is requested; a finished run is Failed), and the records of every
\* page whose fetch returned are in the store.
C7_FailureKeepsPages ==
    (mode = "full" /\ FetchFailed) =>
        /\ pc # "success"
        /\ indexCalls = 0
        /\ pc \in Terminal => pc = "failed"
        /\ \A id \in DeliveredIds : store[id] > 0

\* C7: a full load ended as Failed on an HTTP error after a page fetch returned.
C7_Witness ==
    /\ mode = "full"
    /\ pc = "failed"
    /\ error \in HttpErrors
    /\ \E i \in 1..Len(futures) : futures[i].state = "done"

\* C8: when an incremental sync has completed successfully the checkpoint
\* equals the end of its window.
C8_CheckpointIsWindowEnd ==
    (mode = "incr" /\ pc = "success") => checkpoint = Some(window[1].end)

\* C9: a full load, successful or failed, leaves the checkpoint as it was
\* before the run.
C9_FullLoadKeepsCheckpoint ==
    (mode = "full" /\ pc \in { "success", "failed" }) => checkpoint = ckptAtStart

\* C10: no checkpoint write happens while a run's fetches are pending or in
\* flight, and none in a run that ends as Failed.
C10_CheckpointOnlyAfterSuccess ==
    /\ (pc \in { "seed", "update" } \/ Queued # { } \/ Running # { }) => ckptWrites = 0
    /\ pc = "failed" => ckptWrites = 0

\* C11: the limit a request is made under follows the credential: the public
\* limit when no API key is configured, the API-key limit when one is.
C11_LimitByCredential ==
    runs > 0 =>
        RequestLimiter(now).clamped_calls
          = (IF api_key = "" THEN public_rate_limit ELSE api_rate_limit)

\* C12: a fetch returns only from a 200 response whose body has the record
\* envelope; a fetch that failed wrote nothing to the store and wrote no
\* checkpoint (every store write and every checkpoint write of the run
\* belongs to a fetch that returned).
C12_FetchValidates ==
    /\ 0 \in fetched => body0 = "page"
    /\ \A i \in 1..Len(futures) : futures[i].state = "done" => futures[i].body = "page"
    /\ \A w \in ops : w.start_index \in fetched
    /\ ckptWrites = Cardinality(ops)
    /\ \A i \in 1..Len(futures) : ResultRaises(futures[i]) => futures[i].start_index \notin fetched
    /\ (pc = "failed" /\ futures = << >>) => (store = storeAtStart /\ checkpoint = ckptAtStart)

\* C13: once the error of a failed page fetch has reached the main thread, no
\* task that is still queued begins; the store keeps what the tasks in flight
\* write.
C13_NoStartAfterFailure ==
    [][ pc = "shutdown" =>
          /\ \A i \in Queued : futures'[i].state = "queued"
          /\ \A id \in Ids : store'[id] >= store[id] ]_vars

\* C14: every page of a full load that is persisted, the seed page included,
\* is persisted with insert_many.
C14_FullLoadInsertsOnly ==
    mode = "full" => \A w \in ops : w.op = "insert_many"

\* C15: a full load requests the index at most once; a successful one has
\* requested it once; it is requested only when the seed fetch and every
\* submitted task have returned and their records are in the store; it is
\* never requested in a run in which a fetch failed.
C15_IndexOnceAfterAll ==
    mode = "full" =>
        /\ indexCalls <= 1
        /\ pc = "success" => indexCalls = 1
        /\ indexCalls = 1 =>
              /\ pc = "success"
              /\ 0 \in fetched
              /\ \A i \in 1..Len(futures) : futures[i].state = "done"
              /\ \A i \in 1..Len(futures) : futures[i].start_index \in fetched
              /\ \A id \in DeliveredIds : store[id] > 0
        /\ FetchFailed => indexCalls = 0

\* C15: a full load of three pages has succeeded and built the index.
C15_Witness ==
    /\ mode = "full" /\ pc = "success"
    /\ Len(futures) = 2
    /\ indexCalls = 1
    /\ hasIndex

\* C16: when a full load has succeeded, the store holds what it held before
\* plus each delivered record once, and the checkpoint is the time the last
\* fetch returned, whichever fetch that was (unchanged when nothing was
\* delivered): neither depends on the order in which the fetches returned.
C16_OrderIndependent ==
    (mode = "full" /\ pc = "success") =>
        /\ store = [ id \in Ids |-> storeAtStart[id] + (IF id \in DeliveredIds THEN 1 ELSE 0) ]
        /\ checkpoint = (IF DeliveredIds = { } THEN ckptAtStart ELSE lastDone)

\* C17: once a page fetch's fatal error has reached the main thread and no
\* task is in flight, the full load can end as Failed at once, whatever tasks
\* are still queued.
C17_FailsWithoutWaiting ==
    (pc = "shutdown" /\ Running = { }) => ENABLED PoolShutdown

\* C18: a page fetch makes at most retry_limit HTTP attempts; one that failed
\* on a server error has used them all, one that failed on a client error
\* made exactly one.
C18_RetriesTransient ==
    /\ \A s \in PageStarts : attempts[s] <= retry_limit
    /\ \A i \in 1..Len(futures) :
          /\ futures[i].state = "http5xx" => attempts[futures[i].start_index] = retry_limit
          /\ futures[i].state = "http4xx" => attempts[futures[i].start_index] = 1
    /\ (pc = "failed" /\ futures = << >>) =>
          /\ error = "http5xx" => attempts[0] = retry_limit
          /\ error = "http4xx" => attempts[0] = 1

\* The records of the pages the progress bar has counted.
CountedIds ==
    Range(initial_vulnerabilities)
      \cup UNION { Range(FutureVulnerabilities(futures[i])) :
                     i \in { j \in 1..Len(futures) : futures[j].collected } }

\* C19: in a full load the store write of a fetch that has returned records
\* has been issued; the progress count is the number of records of the pages
\* counted so far; at success it is the number of records the seed page and
\* the fetched pages delivered.
C19_ProgressCountsStored ==
    (mode = "full" /\ 0 \in fetched) =>
        /\ initial_vulnerabilities # << >> => 0 \in { w.start_index : w \in ops }
        /\ \A i \in 1..Len(futures) :
              (futures[i].state = "done" /\ FutureVulnerabilities(futures[i]) # << >>)
                => futures[i].start_index \in { w.start_index : w \in ops }
        /\ pbar = Cardinality(CountedIds)
        /\ pc = "success" => pbar = Cardinality(DeliveredIds)

\* C19: a full load of five records in three pages has succeeded.
C19_Witness ==
    /\ mode = "full" /\ pc = "success"
    /\ Len(futures) = 2
    /\ pbar = 5

\* A step in which a make_request returns a response without records.
EmptyReturn ==
    \/ pc = "seed" /\ pc' = "collect" /\ initial_vulnerabilities' = << >>
    \/ pc = "update" /\ pc' = "success" /\ initial_vulnerabilities' = << >>
    \/ \E i \in Running :
          futures'[i].state = "done" /\ FutureVulnerabilities(futures[i])' = << >>

\* C20: a make_request whose response has no records leaves the store and the
\* checkpoint as they were, in the init step and in the update step.
C20_EmptyPageWritesNothing ==
    [][ EmptyReturn => (store' = store /\ checkpoint' = checkpoint) ]_vars

\* C20: a pool task (step init) has returned a response without records.
C20_Witness ==
    /\ mode = "full"
    /\ \E i \in 1..Len(futures) :
          /\ futures[i].state = "done"
          /\ FutureVulnerabilities(futures[i]) = << >>
          /\ \A w \in ops : w.start_index # futures[i].start_index

====
